---- MODULE Spec2Model ----
(***************************************************************************)
(* A model of AnalyticsSimpleEventLister.py: format detection, the two     *)
(* event extractors, the event classifier and the top-level pipeline.      *)
(*                                                                         *)
(* Python values are modelled as tagged records.  A Python string is a     *)
(* sequence of lexemes (a sequence of TLA+ strings): the empty string is   *)
(* <<>>, "Home" is <<"Home">>, and a JSON text is the sequence of its      *)
(* tokens.  A dict is its sequence of (key, value) pairs in insertion      *)
(* order.  A raised exception is the value Raise(name), which every        *)
(* operator that models an expression propagates.                          *)
(***************************************************************************)
EXTENDS Integers, Sequences, FiniteSets, TLC

VARIABLES
    mode,                 \* the entry point that was called
    pc,                   \* position in the running code
    data,                 \* the parsed JSON document (json.load of the file)
    max_events,           \* the max_events argument (None or an int)
    idx,                  \* index of the element the current loop is at
    events,               \* the extractor's local list `events`
    valid_events_count,   \* the Assurance extractor's counter
    total_events_processed, \* the Assurance extractor's scan counter
    filetype,             \* the pipeline's `filetype`
    batch,                \* the pipeline's dict `events` ("Event N" -> JSON text)
    descriptions,         \* the pipeline's list `descriptions`
    result                \* the outcome of the entry point: a return value or a raise

vars == <<mode, pc, data, max_events, idx, events, valid_events_count,
          total_events_processed, filetype, batch, descriptions, result>>

----------------------------------------------------------------------------
(* Python values *)

None == [type |-> "null"]
JBool(b) == [type |-> "bool", b |-> b]
JNum(n) == [type |-> "num", n |-> n]
JStr(s) == [type |-> "str", s |-> s]
JList(items) == [type |-> "list", items |-> items]
JDict(pairs) == [type |-> "dict", pairs |-> pairs]
Pair(k, v) == [k |-> k, v |-> v]
EmptyDict == JDict(<<>>)
EmptyList == JList(<<>>)
Raise(e) == [type |-> "raise", exc |-> e]
IsRaise(v) == v.type = "raise"
IsDict(v) == v.type = "dict"
IsList(v) == v.type = "list"
IsStr(v) == v.type = "str"
\* a one-lexeme string literal
Lit(w) == JStr(<<w>>)

\* bool(v): Python truthiness
Truthy(v) ==
    CASE v.type = "null" -> FALSE
      [] v.type = "bool" -> v.b
      [] v.type = "num" -> v.n # 0
      [] v.type = "str" -> v.s # <<>>
      [] v.type = "list" -> v.items # <<>>
      [] v.type = "dict" -> v.pairs # <<>>

\* a variant of `a or b` that falls back only when a is None
OrIfNone(a, b) == IF a = None THEN b ELSE a

\* a or b
Or(a, b) == IF Truthy(a) THEN a ELSE b

\* `k in d` for a dict d
HasKey(d, k) == \E i \in 1..Len(d.pairs) : d.pairs[i].k = k

\* d[k] for a dict d that has the key
Lookup(d, k) ==
    d.pairs[CHOOSE i \in 1..Len(d.pairs) : d.pairs[i].k = k].v

\* d.get(k, default): AttributeError when d is no dict
Get(d, k, default) ==
    IF IsRaise(d) THEN d
    ELSE IF ~IsDict(d) THEN Raise("AttributeError")
    ELSE IF HasKey(d, k) THEN Lookup(d, k)
    ELSE default

\* d.get(k)
Get1(d, k) == Get(d, k, None)

\* what a for-loop walks over v, as a list: a list's items, a dict's keys,
\* a string's characters; TypeError for a value that is not iterable
Iter(v) ==
    CASE v.type = "list" -> v
      [] v.type = "dict" -> JList([i \in 1..Len(v.pairs) |-> JStr(v.pairs[i].k)])
      [] v.type = "str" -> JList([i \in 1..Len(v.s) |-> Lit(v.s[i])])
      [] v.type = "raise" -> v
      [] OTHER -> Raise("TypeError")

\* whether string `needle` occurs in string `hay` (needle in hay)
Contains(hay, needle) ==
    \E i \in 0..(Len(hay) - Len(needle)) :
        SubSeq(hay, i + 1, i + Len(needle)) = needle

----------------------------------------------------------------------------
(* json.dumps(obj, indent=4) and json.loads(text) *)

\* the integers that documents carry, and their decimal lexemes
JsonInts == 0..9
NumTok(n) == ToString(n)
IsNumTok(t) == \E n \in JsonInts : NumTok(n) = t
TokNum(t) == CHOOSE n \in JsonInts : NumTok(n) = t
WhiteSpace == {" ", "\n"}

RECURSIVE Escape(_)
\* string escaping of json.dumps: a quote or backslash gets a backslash
Escape(s) ==
    IF s = <<>> THEN <<>>
    ELSE IF Head(s) \in {"\"", "\\"} THEN <<"\\", Head(s)>> \o Escape(Tail(s))
    ELSE <<Head(s)>> \o Escape(Tail(s))

Quoted(s) == <<"\"">> \o Escape(s) \o <<"\"">>

RECURSIVE dumpsTokens(_)
RECURSIVE JoinDumps(_, _)
\* the items of a list or the members of a dict, separated by ",\n"
JoinDumps(seq, isDict) ==
    IF seq = <<>> THEN <<>>
    ELSE LET one == IF isDict
                    THEN Quoted(Head(seq).k) \o <<":", " ">> \o dumpsTokens(Head(seq).v)
                    ELSE dumpsTokens(Head(seq))
         IN IF Len(seq) = 1 THEN one
            ELSE one \o <<",", "\n">> \o JoinDumps(Tail(seq), isDict)

dumpsTokens(v) ==
    CASE v.type = "null" -> <<"null">>
      [] v.type = "bool" -> IF v.b THEN <<"true">> ELSE <<"false">>
      [] v.type = "num" -> <<NumTok(v.n)>>
      [] v.type = "str" -> Quoted(v.s)
      [] v.type = "list" ->
            IF v.items = <<>> THEN <<"[", "]">>
            ELSE <<"[", "\n">> \o JoinDumps(v.items, FALSE) \o <<"\n", "]">>
      [] v.type = "dict" ->
            IF v.pairs = <<>> THEN <<"{", "}">>
            ELSE <<"{", "\n">> \o JoinDumps(v.pairs, TRUE) \o <<"\n", "}">>

\* json.dumps(obj, indent=4)
dumps(v) == IF IsRaise(v) THEN v ELSE JStr(dumpsTokens(v))

\* a parse step's outcome: the value read and the position after it
Parsed(v, next) == [ok |-> TRUE, val |-> v, next |-> next]
ParseFail == [ok |-> FALSE, val |-> None, next |-> 0]

RECURSIVE SkipWs(_, _)
SkipWs(t, i) == IF i <= Len(t) /\ t[i] \in WhiteSpace THEN SkipWs(t, i + 1) ELSE i

RECURSIVE ReadStr(_, _, _)
\* the string body from position i up to the closing quote
ReadStr(t, i, acc) ==
    IF i > Len(t) THEN ParseFail
    ELSE IF t[i] = "\"" THEN Parsed(acc, i + 1)
    ELSE IF t[i] = "\\"
         THEN IF i + 1 > Len(t) THEN ParseFail
              ELSE ReadStr(t, i + 2, Append(acc, t[i + 1]))
    ELSE ReadStr(t, i + 1, Append(acc, t[i]))

RECURSIVE ParseValue(_, _)
RECURSIVE ParseItems(_, _, _)
RECURSIVE ParseMembers(_, _, _)

\* after "[" and at least one item: items separated by ",", closed by "]"
ParseItems(t, i, acc) ==
    LET item == ParseValue(t, SkipWs(t, i)) IN
    IF ~item.ok THEN ParseFail
    ELSE LET j == SkipWs(t, item.next)
             acc2 == Append(acc, item.val)
         IN IF j > Len(t) THEN ParseFail
            ELSE IF t[j] = "]" THEN Parsed(JList(acc2), j + 1)
            ELSE IF t[j] = "," THEN ParseItems(t, j + 1, acc2)
            ELSE ParseFail

\* after "{": members "key": value separated by ",", closed by "}"
ParseMembers(t, i, acc) ==
    LET j == SkipWs(t, i) IN
    IF j > Len(t) \/ t[j] # "\"" THEN ParseFail
    ELSE LET key == ReadStr(t, j + 1, <<>>) IN
         IF ~key.ok THEN ParseFail
         ELSE LET c == SkipWs(t, key.next) IN
              IF c > Len(t) \/ t[c] # ":" THEN ParseFail
              ELSE LET val == ParseValue(t, SkipWs(t, c + 1)) IN
                   IF ~val.ok THEN ParseFail
                   ELSE LET e == SkipWs(t, val.next)
                            \* a repeated key keeps its first position and
                            \* takes the last value, as a Python dict does
                            acc2 == IF \E n \in 1..Len(acc) : acc[n].k = key.val
                                    THEN [n \in 1..Len(acc) |->
                                            IF acc[n].k = key.val
                                            THEN Pair(key.val, val.val)
                                            ELSE acc[n]]
                                    ELSE Append(acc, Pair(key.val, val.val))
                        IN IF e > Len(t) THEN ParseFail
                           ELSE IF t[e] = "}" THEN Parsed(JDict(acc2), e + 1)
                           ELSE IF t[e] = "," THEN ParseMembers(t, e + 1, acc2)
                           ELSE ParseFail

ParseValue(t, i) ==
    IF i > Len(t) THEN ParseFail
    ELSE CASE t[i] = "null" -> Parsed(None, i + 1)
           [] t[i] = "true" -> Parsed(JBool(TRUE), i + 1)
           [] t[i] = "false" -> Parsed(JBool(FALSE), i + 1)
           [] t[i] = "\"" ->
                LET s == ReadStr(t, i + 1, <<>>) IN
                IF s.ok THEN Parsed(JStr(s.val), s.next) ELSE ParseFail
           [] t[i] = "[" ->
                LET j == SkipWs(t, i + 1) IN
                IF j <= Len(t) /\ t[j] = "]" THEN Parsed(EmptyList, j + 1)
                ELSE ParseItems(t, j, <<>>)
           [] t[i] = "{" ->
                LET j == SkipWs(t, i + 1) IN
                IF j <= Len(t) /\ t[j] = "}" THEN Parsed(EmptyDict, j + 1)
                ELSE ParseMembers(t, j, <<>>)
           [] OTHER ->
                IF IsNumTok(t[i]) THEN Parsed(JNum(TokNum(t[i])), i + 1)
                ELSE ParseFail

\* json.loads(text): TypeError unless text is a string, JSONDecodeError
\* unless the whole text is one JSON value
loads(text) ==
    IF IsRaise(text) THEN text
    ELSE IF ~IsStr(text) THEN Raise("TypeError")
    ELSE LET p == ParseValue(text.s, SkipWs(text.s, 1)) IN
         IF p.ok /\ SkipWs(text.s, p.next) > Len(text.s) THEN p.val
         ELSE Raise("JSONDecodeError")

----------------------------------------------------------------------------
(* Values of the running program *)

Pending == [type |-> "pending"]
Return(v) == [type |-> "return", val |-> v]
ValueError(msg) == [type |-> "raise", exc |-> "ValueError", msg |-> msg]
IsReturn(v) == v.type = "return"

\* the string literals of the source
EdgeBridgeRequest == Lit("Edge Bridge Request")
TargetHost == <<"hilton.data.adobedc.net">>

\* str(v) as an f-string renders it; repr for the values inside a container
RECURSIVE PyRepr(_)
RECURSIVE JoinRepr(_, _)
JoinRepr(seq, isDict) ==
    IF seq = <<>> THEN <<>>
    ELSE LET one == IF isDict
                    THEN <<"'">> \o Head(seq).k \o <<"'", ": ">> \o PyRepr(Head(seq).v)
                    ELSE PyRepr(Head(seq))
         IN IF Len(seq) = 1 THEN one
            ELSE one \o <<", ">> \o JoinRepr(Tail(seq), isDict)

PyRepr(v) ==
    CASE v.type = "null" -> <<"None">>
      [] v.type = "bool" -> IF v.b THEN <<"True">> ELSE <<"False">>
      [] v.type = "num" -> <<NumTok(v.n)>>
      [] v.type = "str" -> <<"'">> \o v.s \o <<"'">>
      [] v.type = "list" -> <<"[">> \o JoinRepr(v.items, FALSE) \o <<"]">>
      [] v.type = "dict" -> <<"{">> \o JoinRepr(v.pairs, TRUE) \o <<"}">>

Str(v) == IF IsStr(v) THEN v.s ELSE PyRepr(v)

\* `needle in hay`: substring of a string, item of a list, key of a dict;
\* TypeError for a value that is no container
In(needle, hay) ==
    CASE IsRaise(hay) -> hay
      [] hay.type = "str" -> JBool(Contains(hay.s, needle))
      [] hay.type = "list" -> JBool(\E i \in 1..Len(hay.items) : hay.items[i] = JStr(needle))
      [] hay.type = "dict" -> JBool(HasKey(hay, needle))
      [] OTHER -> Raise("TypeError")

----------------------------------------------------------------------------
(* detect_file_type *)

\* event.get("payload", {}).get("ACPExtensionEventName")
EventName(event) ==
    Get1(Get(event, <<"payload">>, EmptyDict), <<"ACPExtensionEventName">>)

\* how detect_file_type ends: alone it is the outcome of the call; in the
\* pipeline a return value becomes `filetype` and a raise ends the run
DetectFinish(outcome) ==
    IF mode = "pipeline" /\ IsReturn(outcome)
    THEN /\ filetype' = outcome.val
         /\ pc' = "match"
         /\ UNCHANGED result
    ELSE /\ result' = outcome
         /\ pc' = "done"
         /\ UNCHANGED filetype

\* open + json.load, then the choice of the branch by the root's type
DetectOpen ==
    /\ pc = "detect"
    /\ UNCHANGED <<mode, data, max_events, events, valid_events_count,
                   total_events_processed, batch, descriptions>>
    /\ IF IsRaise(data)
       THEN /\ DetectFinish(IF data.exc = "JSONDecodeError"
                            THEN ValueError("File is not valid JSON")
                            ELSE ValueError("File could not be read"))
            /\ UNCHANGED idx
       ELSE IF IsDict(data) /\ HasKey(data, <<"events">>)
       THEN IF IsRaise(Iter(Lookup(data, <<"events">>)))
            THEN DetectFinish(Iter(Lookup(data, <<"events">>))) /\ UNCHANGED idx
            ELSE pc' = "detect_events" /\ idx' = 0 /\ UNCHANGED <<result, filetype>>
       ELSE IF IsList(data)
       THEN pc' = "detect_list" /\ idx' = 0 /\ UNCHANGED <<result, filetype>>
       ELSE /\ DetectFinish(ValueError("JSON root is neither an object with 'events' nor a list"))
            /\ UNCHANGED idx

\* one turn of `for event in data["events"]`, or the raise after the loop
DetectEventsStep ==
    /\ pc = "detect_events"
    /\ UNCHANGED <<mode, data, max_events, events, valid_events_count,
                   total_events_processed, batch, descriptions>>
    /\ LET it == Iter(Lookup(data, <<"events">>)).items IN
       IF idx >= Len(it)
       THEN /\ DetectFinish(ValueError("JSON has 'events' but none are Edge Bridge Request (not valid Assurance export)"))
            /\ UNCHANGED idx
       ELSE LET name == EventName(it[idx + 1]) IN
            IF IsRaise(name) THEN DetectFinish(name) /\ UNCHANGED idx
            ELSE IF name = EdgeBridgeRequest
            THEN DetectFinish(Return(Lit("assurance"))) /\ UNCHANGED idx
            ELSE idx' = idx + 1 /\ UNCHANGED <<pc, result, filetype>>

\* one turn of `for item in data`, or the raise after the loop
DetectListStep ==
    /\ pc = "detect_list"
    /\ UNCHANGED <<mode, data, max_events, events, valid_events_count,
                   total_events_processed, batch, descriptions>>
    /\ IF idx >= Len(data.items)
       THEN /\ DetectFinish(ValueError("JSON is a list, but no entries have host 'hilton.data.adobedc.net' (not valid Charles export)"))
            /\ UNCHANGED idx
       ELSE LET item == data.items[idx + 1] IN
            IF IsDict(item) /\ Get1(item, <<"host">>) = JStr(TargetHost)
            THEN DetectFinish(Return(Lit("charles"))) /\ UNCHANGED idx
            ELSE idx' = idx + 1 /\ UNCHANGED <<pc, result, filetype>>

----------------------------------------------------------------------------
(* extract_assurance_edge_bridge_events (is_debug = False, its default) *)

\* a variant of the test that lets one event more through
CapReachedLate(max, count) == Truthy(max) /\ count > max.n

\* `max_events and count >= max_events`: the test that ends the scan
CapReached(max, count) == Truthy(max) /\ count >= max.n

RECURSIVE InsertByTimestamp(_, _)

\* a variant that puts the pair before the pairs of the same timestamp
InsertBeforeEqual(sorted, p) ==
    IF sorted = <<>> THEN <<p>>
    ELSE IF p.ts.n <= Head(sorted).ts.n THEN <<p>> \o sorted
    ELSE <<Head(sorted)>> \o InsertByTimestamp(Tail(sorted), p)

\* the place of a (timestamp, payload) pair among pairs already in order:
\* behind every pair whose timestamp is not greater
InsertByTimestamp(sorted, p) ==
    IF sorted = <<>> THEN <<p>>
    ELSE IF p.ts.n < Head(sorted).ts.n THEN <<p>> \o sorted
    ELSE <<Head(sorted)>> \o InsertByTimestamp(Tail(sorted), p)

RECURSIVE SortedPrefix(_, _)
SortedPrefix(seq, n) ==
    IF n = 0 THEN <<>> ELSE InsertByTimestamp(SortedPrefix(seq, n - 1), seq[n])

\* events.sort(key=lambda x: x[0]): the list in stable order by timestamp;
\* the timestamps of the documents are numbers or null, and comparing null
\* with anything is a TypeError
SortByTimestamp(seq) ==
    IF Len(seq) >= 2 /\ \E i \in 1..Len(seq) : seq[i].ts.type # "num"
    THEN Raise("TypeError")
    ELSE JList(SortedPrefix(seq, Len(seq)))

\* {f"Event {i+1}": json.dumps(event[1], indent=4) for i, event in enumerate(events)}
NumberedDumps(payloads) ==
    JDict([i \in 1..Len(payloads) |->
             Pair(<<"Event ", NumTok(i)>>, dumps(payloads[i]))])

\* how an extractor ends: alone it is the outcome of the call; in the
\* pipeline its return value becomes the dict `events` of numbered JSON texts
ExtractFinish(outcome, numbered) ==
    IF mode = "pipeline" /\ IsReturn(outcome)
    THEN /\ batch' = numbered
         /\ pc' = "debug"
         /\ UNCHANGED result
    ELSE /\ result' = outcome
         /\ pc' = "done"
         /\ UNCHANGED batch

\* open + json.load, data.get("events", []) and the start of the loop
AssuranceOpen ==
    /\ pc = "assurance"
    /\ UNCHANGED <<mode, data, max_events, filetype, descriptions>>
    /\ LET it == Iter(Get(data, <<"events">>, EmptyList))
       IN IF IsRaise(it)
          THEN /\ ExtractFinish(it, batch)
               /\ UNCHANGED <<idx, events, valid_events_count, total_events_processed>>
          ELSE /\ pc' = "assurance_scan"
               /\ idx' = 0
               /\ events' = <<>>
               /\ valid_events_count' = 0
               /\ total_events_processed' = 0
               /\ UNCHANGED <<result, batch>>

\* one turn of the scan loop (lines 66-76), or its end
AssuranceStep ==
    /\ pc = "assurance_scan"
    /\ UNCHANGED <<mode, data, max_events, filetype, descriptions>>
    /\ LET it == Iter(Get(data, <<"events">>, EmptyList)).items IN
       IF idx >= Len(it)
       THEN /\ pc' = "assurance_sort"
            /\ UNCHANGED <<idx, events, valid_events_count, total_events_processed,
                           result, batch>>
       ELSE LET event == it[idx + 1]
                name == EventName(event)
                event_data == Get(Get(event, <<"payload">>, EmptyDict),
                                  <<"ACPExtensionEventData">>, EmptyDict)
                timestamp == Get(event, <<"timestamp">>, JNum(0))
            IN /\ total_events_processed' = total_events_processed + 1
               /\ IF CapReached(max_events, valid_events_count)
                  THEN /\ pc' = "assurance_sort"
                       /\ UNCHANGED <<idx, events, valid_events_count, result, batch>>
                  ELSE IF IsRaise(name)
                  THEN /\ ExtractFinish(name, batch)
                       /\ UNCHANGED <<idx, events, valid_events_count>>
                  ELSE IF name # EdgeBridgeRequest
                  THEN /\ idx' = idx + 1
                       /\ UNCHANGED <<pc, events, valid_events_count, result, batch>>
                  ELSE IF IsRaise(event_data)
                  THEN /\ ExtractFinish(event_data, batch)
                       /\ UNCHANGED <<idx, events, valid_events_count>>
                  ELSE /\ valid_events_count' = valid_events_count + 1
                       /\ events' = Append(events, [ts |-> timestamp, payload |-> event_data])
                       /\ idx' = idx + 1
                       /\ UNCHANGED <<pc, result, batch>>

\* events.sort(...) and the returned dict (lines 91-92)
AssuranceSort ==
    /\ pc = "assurance_sort"
    /\ UNCHANGED <<mode, data, max_events, filetype, descriptions, idx,
                   valid_events_count, total_events_processed>>
    /\ LET sorted == SortByTimestamp(events) IN
       IF IsRaise(sorted)
       THEN ExtractFinish(sorted, batch) /\ UNCHANGED events
       ELSE LET numbered == NumberedDumps([i \in 1..Len(sorted.items) |->
                                             sorted.items[i].payload])
            IN /\ events' = sorted.items
               /\ ExtractFinish(Return(numbered), numbered)

----------------------------------------------------------------------------
(* extract_adobe_events_from_charles (is_debug = False, its default) *)

\* the inner loop `for event in call_events` (lines 121-133): append, then
\* return once `max_events and len(events) >= max_events`
RECURSIVE AppendCallEvents(_, _, _)
AppendCallEvents(evs, call_events, max) ==
    IF call_events = <<>> THEN [events |-> evs, returned |-> FALSE]
    ELSE LET appended == Append(evs, Head(call_events)) IN
         IF CapReached(max, Len(appended))
         THEN [events |-> appended, returned |-> TRUE]
         ELSE AppendCallEvents(appended, Tail(call_events), max)

\* open + json.load and the start of `for index, call in enumerate(data)`
CharlesOpen ==
    /\ pc = "charles"
    /\ UNCHANGED <<mode, data, max_events, filetype, descriptions,
                   valid_events_count, total_events_processed>>
    /\ LET it == Iter(data) IN
       IF IsRaise(it)
       THEN ExtractFinish(it, batch) /\ UNCHANGED <<idx, events>>
       ELSE /\ pc' = "charles_scan"
            /\ idx' = 0
            /\ events' = <<>>
            /\ UNCHANGED <<result, batch>>

\* one call of the scan (lines 112-137), or the return after the last call
CharlesCall ==
    /\ pc = "charles_scan"
    /\ UNCHANGED <<mode, data, max_events, filetype, descriptions,
                   valid_events_count, total_events_processed>>
    /\ LET it == Iter(data).items IN
       IF idx >= Len(it)
       THEN /\ ExtractFinish(Return(JList(events)), NumberedDumps(events))
            /\ UNCHANGED <<idx, events>>
       ELSE LET call == it[idx + 1]
                hit == In(TargetHost, Get(call, <<"host">>, JStr(<<>>)))
                body == Get(Get(Get(call, <<"request">>, EmptyDict),
                                <<"body">>, EmptyDict), <<"text">>, JStr(<<>>))
                call_data == loads(body)
                call_events == Get(call_data, <<"events">>, EmptyList)
                caught(e) == IsRaise(e) /\ e.exc \in {"JSONDecodeError", "TypeError"}
            IN IF IsRaise(hit)
               THEN ExtractFinish(hit, batch) /\ UNCHANGED <<idx, events>>
               ELSE IF ~hit.b
               THEN idx' = idx + 1 /\ UNCHANGED <<pc, events, result, batch>>
               ELSE IF caught(body) \/ caught(call_data) \/ caught(call_events)
                       \/ caught(Iter(call_events))
               THEN idx' = idx + 1 /\ UNCHANGED <<pc, events, result, batch>>
               ELSE IF IsRaise(call_events)
               THEN ExtractFinish(call_events, batch) /\ UNCHANGED <<idx, events>>
               ELSE LET got == AppendCallEvents(events, Iter(call_events).items,
                                                max_events)
                    IN /\ events' = got.events
                       /\ IF got.returned
                          THEN /\ ExtractFinish(Return(JList(got.events)),
                                                NumberedDumps(got.events))
                               /\ UNCHANGED idx
                          ELSE idx' = idx + 1 /\ UNCHANGED <<pc, result, batch>>

----------------------------------------------------------------------------
(* parse_launch_event, parse_track_event and the body of the summary loop *)

\* the first raise among the values, in evaluation order, or None
FirstRaise(vals) ==
    IF \E i \in 1..Len(vals) : IsRaise(vals[i])
    THEN vals[CHOOSE i \in 1..Len(vals) :
                /\ IsRaise(vals[i])
                /\ \A j \in 1..(i - 1) : ~IsRaise(vals[j])]
    ELSE None

\* local_data is the local variable `data` of the two functions
parse_launch_event(event) ==
    LET xdm == Get(event, <<"xdm">>, EmptyDict)
        local_data == Get(event, <<"data">>, EmptyDict)
        version == Get1(Get(xdm, <<"application">>, EmptyDict), <<"version">>)
        name == Get1(Get(xdm, <<"application">>, EmptyDict), <<"name">>)
        os_type == Get1(Get(xdm, <<"environment">>, EmptyDict), <<"operatingSystem">>)
        os_version == Get1(Get(xdm, <<"environment">>, EmptyDict),
                           <<"operatingSystemVersion">>)
        device_model == Get1(Get(xdm, <<"device">>, EmptyDict), <<"model">>)
        raised == FirstRaise(<<xdm, local_data, version, name, os_type, os_version,
                               device_model>>)
    IN IF IsRaise(raised) THEN raised
       ELSE JStr(<<"Launch: ">> \o Str(name) \o <<" ">> \o Str(version) \o <<", ">>
                 \o Str(os_type) \o <<" ">> \o Str(os_version)
                 \o <<", Model: ">> \o Str(device_model))

parse_track_event(event) ==
    LET local_data == Get(Get(Get(event, <<"data">>, EmptyDict), <<"__adobe">>,
                              EmptyDict), <<"analytics">>, EmptyDict)
        context_data == Get(local_data, <<"contextData">>, EmptyDict)
        own_page_name == Get1(local_data, <<"pageName">>)
        page_name == IF IsRaise(own_page_name) \/ Truthy(own_page_name)
                     THEN own_page_name
                     ELSE Get1(context_data, <<"hm.page.name">>)
        page_previous == Get1(context_data, <<"hm.page.previous">>)
        link_name == Get1(local_data, <<"linkName">>)
        raised == FirstRaise(<<local_data, context_data, page_name, page_previous, link_name>>)
    IN IF IsRaise(raised) THEN raised
       ELSE IF Truthy(page_name)
       THEN JStr(<<"Page: ">> \o Str(page_name) \o <<"; previous page ">>
                 \o Str(Or(page_previous, Lit("unknown"))))
       ELSE IF Truthy(link_name)
       THEN JStr(<<"Link: ">> \o Str(link_name) \o <<"; previous page ">>
                 \o Str(Or(page_previous, Lit("unknown"))))
       ELSE Lit("Unknown analytics TRACK event")

\* a variant of the else branch that takes Unknown for every empty value
unhandled_event_or_unknown(event) ==
    LET event_type == Get1(Get(event, <<"xdm">>, EmptyDict), <<"eventType">>)
    IN IF IsRaise(event_type) THEN event_type
       ELSE JStr(<<"Unhandled event type: ">> \o Str(Or(event_type, Lit("Unknown"))))

\* the else branch of the dispatch (lines 214-215)
unhandled_event(event) ==
    LET event_type == Get(Get(event, <<"xdm">>, EmptyDict), <<"eventType">>,
                          Lit("Unknown"))
    IN IF IsRaise(event_type) THEN event_type
       ELSE JStr(<<"Unhandled event type: ">> \o Str(event_type))

\* the body of `for event_name, event_json in events.items()` up to `desc`
\* (lines 202-215): the summary line, or the raise that ends the loop
classify(event_json) ==
    LET event == loads(event_json)
        xdm == Get(event, <<"xdm">>, EmptyDict)
        eventType == Get1(xdm, <<"eventType">>)
    IN IF IsRaise(eventType) THEN eventType
       ELSE IF eventType = Lit("application.launch") THEN parse_launch_event(event)
       ELSE IF eventType = Lit("analytics.track") THEN parse_track_event(event)
       ELSE IF eventType = Lit("application.close") THEN Lit("Application Close")
       ELSE unhandled_event(event)

\* the classify step applied to one event given as JSON text
ClassifyApply ==
    /\ pc = "classify"
    /\ mode = "classify"
    /\ LET desc == classify(batch.pairs[1].v) IN
       result' = IF IsRaise(desc) THEN desc ELSE Return(desc)
    /\ pc' = "done"
    /\ UNCHANGED <<mode, data, max_events, idx, events, valid_events_count,
                   total_events_processed, filetype, batch, descriptions>>

----------------------------------------------------------------------------
(* the pipeline: the module's top level, lines 174-220 *)

\* chr(10).join(descriptions)
RECURSIVE JoinLines(_)
JoinLines(lines) ==
    IF lines = <<>> THEN <<>>
    ELSE IF Len(lines) = 1 THEN Head(lines).s
    ELSE Head(lines).s \o <<"\n">> \o JoinLines(Tail(lines))

\* files.upload() and input_path, then the call of detect_file_type
PipelineStart ==
    /\ pc = "upload"
    /\ pc' = "detect"
    /\ UNCHANGED <<mode, data, max_events, idx, events, valid_events_count,
                   total_events_processed, filetype, batch, descriptions, result>>

\* match filetype: the call of the extractor for the detected format
PipelineMatch ==
    /\ pc = "match"
    /\ UNCHANGED <<mode, data, max_events, idx, events, valid_events_count,
                   total_events_processed, filetype, batch, descriptions>>
    /\ IF filetype = Lit("charles") THEN pc' = "charles" /\ UNCHANGED result
       ELSE IF filetype = Lit("assurance") THEN pc' = "assurance" /\ UNCHANGED result
       ELSE /\ pc' = "done"
            /\ result' = ValueError("Unsupported file type")

\* the debug dump of the first and the second event (lines 194-197)
PipelineDebug ==
    /\ pc = "debug"
    /\ UNCHANGED <<mode, data, max_events, events, valid_events_count,
                   total_events_processed, filetype, batch, descriptions>>
    /\ LET first_event == IF Len(batch.pairs) = 0 THEN Raise("StopIteration")
                          ELSE loads(batch.pairs[1].v)
           second_event == IF Len(batch.pairs) < 2 THEN Raise("IndexError")
                           ELSE loads(batch.pairs[2].v)
           raised == FirstRaise(<<first_event, second_event>>)
       IN IF IsRaise(raised)
          THEN pc' = "done" /\ result' = raised /\ UNCHANGED idx
          ELSE pc' = "summarise" /\ idx' = 0 /\ UNCHANGED result

\* one turn of the summary loop (lines 201-217), or the display of the report
PipelineSummarise ==
    /\ pc = "summarise"
    /\ UNCHANGED <<mode, data, max_events, events, valid_events_count,
                   total_events_processed, filetype, batch>>
    /\ IF idx >= Len(batch.pairs)
       THEN /\ pc' = "done"
            /\ result' = Return(JStr(JoinLines(descriptions)))
            /\ UNCHANGED <<idx, descriptions>>
       ELSE LET desc == classify(batch.pairs[idx + 1].v) IN
            IF IsRaise(desc)
            THEN pc' = "done" /\ result' = desc /\ UNCHANGED <<idx, descriptions>>
            ELSE /\ descriptions' = Append(descriptions, desc)
                 /\ idx' = idx + 1
                 /\ UNCHANGED <<pc, result>>

----------------------------------------------------------------------------
(* The inputs the specifications draw from *)

MaxElems == 3
MaxTs == 2
MaxCap == 2

\* a field that the document does not carry
Absent == [type |-> "absent"]
\* the JSON object with the given members, members with no value left out
Obj(pairs) == JDict(SelectSeq(pairs, LAMBDA p : p.v # Absent))
F(k, v) == Pair(<<k>>, v)
SeqsUpTo(S, n) == UNION {[1..m -> S] : m \in 0..n}

\* canonical events carried as payloads
EvClose == Obj(<<F("xdm", Obj(<<F("eventType", Lit("application.close"))>>))>>)
EvTrack ==
    Obj(<<F("xdm", Obj(<<F("eventType", Lit("analytics.track"))>>)),
          F("data", Obj(<<F("__adobe", Obj(<<F("analytics",
                Obj(<<F("pageName", Lit("Home"))>>))>>))>>))>>)
EvOther == Obj(<<F("xdm", Obj(<<F("eventType", Lit("custom.event"))>>))>>)

\* an element of an Assurance export's `events`
AssuranceElem(name, timestamp, payload) ==
    Obj(<<F("timestamp", timestamp),
          F("payload", Obj(<<F("ACPExtensionEventName", name),
                             F("ACPExtensionEventData", payload)>>))>>)

Timestamps == {Absent} \cup {JNum(t) : t \in 0..MaxTs}

WellFormedElems ==
    {AssuranceElem(EdgeBridgeRequest, t, e) : t \in Timestamps, e \in {EvClose, EvTrack}}
    \cup {AssuranceElem(EdgeBridgeRequest, Absent, Absent),
          AssuranceElem(Lit("Lifecycle"), JNum(1), EvClose)}

\* elements an export should not hold: a number, a null payload, a null timestamp
MalformedElems ==
    {JNum(7), Obj(<<F("payload", None)>>), AssuranceElem(EdgeBridgeRequest, None, EvClose)}

AssuranceDoc(elems) == Obj(<<F("events", JList(elems))>>)

WellFormedAssuranceDocs == {AssuranceDoc(q) : q \in SeqsUpTo(WellFormedElems, MaxElems)}

AssuranceDocs ==
    {AssuranceDoc(q) : q \in SeqsUpTo(WellFormedElems \cup MalformedElems, MaxElems)}

\* a Charles call record
Call(host, text) ==
    Obj(<<F("host", host),
          F("request", Obj(<<F("body", Obj(<<F("text", text)>>))>>))>>)

Body(evs) == dumps(Obj(<<F("events", JList(evs))>>))

Calls ==
    {Call(JStr(TargetHost), Body(<<EvClose, EvTrack>>)),
     Call(JStr(TargetHost \o <<":443">>), Body(<<EvOther>>)),
     Call(Lit("example.com"), Body(<<EvClose>>)),
     Call(JStr(TargetHost), JStr(<<"{", "\"", "events">>)),
     Call(JStr(TargetHost), JNum(5)),
     Call(JStr(TargetHost), dumps(JList(<<EvClose>>))),
     Call(JStr(TargetHost), dumps(EmptyDict)),
     Call(JStr(TargetHost), dumps(Obj(<<F("events", JNum(3))>>))),
     Obj(<<F("host", JStr(TargetHost))>>),
     Call(JNum(1), Body(<<EvClose>>)),
     JNum(7)}

CharlesDocs == {JList(q) : q \in SeqsUpTo(Calls, MaxElems)}

\* other documents, and a file that cannot be read or parsed
OtherDocs ==
    {None, JNum(1), Lit("text"), EmptyDict,
     Obj(<<F("events", None)>>), Obj(<<F("events", Lit("text"))>>),
     Obj(<<F("events", Obj(<<F("a", None)>>))>>),
     Raise("JSONDecodeError"), Raise("IOError")}

Documents == AssuranceDocs \cup CharlesDocs \cup OtherDocs

Caps == {None} \cup {JNum(c) : c \in 0..MaxCap}

\* canonical events for the classifier: every field may be absent, null,
\* empty or no mapping
Analytics(pageName, contextData, linkName) ==
    Obj(<<F("pageName", pageName), F("contextData", contextData),
          F("linkName", linkName)>>)

ContextData(name, previous) ==
    Obj(<<F("hm.page.name", name), F("hm.page.previous", previous)>>)

ContextValues ==
    {Absent, None}
    \cup {ContextData(n, p) : n \in {Absent, JStr(<<>>), Lit("Landing")},
                              p \in {Absent, JStr(<<>>), Lit("Home")}}

AnalyticsValues ==
    {Absent, None}
    \cup {Analytics(n, c, l) : n \in {Absent, None, JStr(<<>>), Lit("Search")},
                               c \in ContextValues,
                               l \in {Absent, JStr(<<>>), Lit("Book Now")}}

DataValues ==
    {Absent, None, Obj(<<F("__adobe", None)>>)}
    \cup {Obj(<<F("__adobe", Obj(<<F("analytics", a)>>))>>) : a \in AnalyticsValues}

EventTypes ==
    {Absent, None, JStr(<<>>), Lit("application.launch"),
     Lit("analytics.track"), Lit("application.close"), Lit("custom.event")}

Application == Obj(<<F("name", Lit("MyApp")), F("version", Lit("2.1"))>>)
Environment ==
    Obj(<<F("operatingSystem", Lit("iOS")), F("operatingSystemVersion", Lit("17.0"))>>)
Device == Obj(<<F("model", Lit("iPhone15"))>>)

XdmValues ==
    {Absent, None, JNum(1)}
    \cup {Obj(<<F("eventType", t)>>) : t \in EventTypes}
    \cup {Obj(<<F("eventType", Lit("application.launch")), F("application", a),
                F("environment", e), F("device", d)>>) :
            a \in {Absent, None, Application},
            e \in {Absent, None, Environment},
            d \in {Absent, Lit("phone"), Device}}

TrackXdm == Obj(<<F("eventType", Lit("analytics.track"))>>)

ClassifyEvents ==
    {Obj(<<F("xdm", x), F("data", d)>>) :
        x \in XdmValues, d \in {Absent, None, EvTrack.pairs[2].v}}
    \cup {Obj(<<F("xdm", TrackXdm), F("data", d)>>) : d \in DataValues}

----------------------------------------------------------------------------
(* Specifications *)

InitLocals ==
    /\ idx = 0
    /\ events = <<>>
    /\ valid_events_count = 0
    /\ total_events_processed = 0
    /\ filetype = None
    /\ batch = EmptyDict
    /\ descriptions = <<>>
    /\ result = Pending

\* detect_file_type called on a document
InitDetect ==
    /\ mode = "detect"
    /\ pc = "detect"
    /\ data \in Documents
    /\ max_events = None
    /\ InitLocals

NextDetect == DetectOpen \/ DetectEventsStep \/ DetectListStep

SpecDetect == InitDetect /\ [][NextDetect]_vars

\* extract_assurance_edge_bridge_events called on a document, with or without a cap
InitAssurance ==
    /\ mode = "assurance"
    /\ pc = "assurance"
    /\ data \in AssuranceDocs \cup OtherDocs
    /\ max_events \in Caps
    /\ InitLocals

NextAssurance == AssuranceOpen \/ AssuranceStep \/ AssuranceSort

SpecAssurance == InitAssurance /\ [][NextAssurance]_vars

\* extract_adobe_events_from_charles called on a document, with or without a cap
InitCharles ==
    /\ mode = "charles"
    /\ pc = "charles"
    /\ data \in CharlesDocs \cup OtherDocs
    /\ max_events \in Caps
    /\ InitLocals

NextCharles == CharlesOpen \/ CharlesCall

SpecCharles == InitCharles /\ [][NextCharles]_vars

\* the classify step called on one canonical event, given as its JSON text
InitClassify ==
    /\ mode = "classify"
    /\ pc = "classify"
    /\ data = None
    /\ max_events = None
    /\ idx = 0
    /\ events = <<>>
    /\ valid_events_count = 0
    /\ total_events_processed = 0
    /\ filetype = None
    /\ batch \in {NumberedDumps(<<e>>) : e \in ClassifyEvents}
    /\ descriptions = <<>>
    /\ result = Pending

NextClassify == ClassifyApply

SpecClassify == InitClassify /\ [][NextClassify]_vars

\* the whole script run on an uploaded file
Init ==
    /\ mode = "pipeline"
    /\ pc = "upload"
    /\ data \in Documents
    /\ max_events = None
    /\ InitLocals

Next ==
    \/ PipelineStart
    \/ DetectOpen \/ DetectEventsStep \/ DetectListStep
    \/ PipelineMatch
    \/ AssuranceOpen \/ AssuranceStep \/ AssuranceSort
    \/ CharlesOpen \/ CharlesCall
    \/ PipelineDebug
    \/ PipelineSummarise

Spec == Init /\ [][Next]_vars

----------------------------------------------------------------------------
(* What the properties speak of, read off the input document *)

\* the member k of a JSON object, Absent when there is none
Field(obj, k) == IF IsDict(obj) /\ HasKey(obj, <<k>>) THEN Lookup(obj, <<k>>) ELSE Absent
MappingOrAbsent(v) == v = Absent \/ IsDict(v)
IsInt(v) == v.type = "num"

\* an Assurance export: an object whose `events` is a list of objects, each
\* with a payload object and a timestamp that is absent or a number
IsAssuranceDoc(d) ==
    /\ IsDict(d)
    /\ IsList(Field(d, "events"))
    /\ \A i \in 1..Len(Field(d, "events").items) :
          LET e == Field(d, "events").items[i] IN
          /\ IsDict(e)
          /\ MappingOrAbsent(Field(e, "payload"))
          /\ Field(e, "timestamp") = Absent \/ IsInt(Field(e, "timestamp"))

IsEdgeBridge(e) == Field(Field(e, "payload"), "ACPExtensionEventName") = EdgeBridgeRequest
TimestampOf(e) == IF Field(e, "timestamp") = Absent THEN 0 ELSE Field(e, "timestamp").n
PayloadOf(e) ==
    IF Field(Field(e, "payload"), "ACPExtensionEventData") = Absent THEN EmptyDict
    ELSE Field(Field(e, "payload"), "ACPExtensionEventData")

\* the Edge Bridge elements of the document, in source order
Matching(d) == SelectSeq(Field(d, "events").items, IsEdgeBridge)

\* the elements with timestamp t, then those with t + 1, ..., each group in
\* the order of `elems`
RECURSIVE ByTimestamp(_, _)
ByTimestamp(elems, t) ==
    IF t > MaxTs THEN <<>>
    ELSE SelectSeq(elems, LAMBDA e : TimestampOf(e) = t) \o ByTimestamp(elems, t + 1)

FirstN(seq, n) == SubSeq(seq, 1, IF n < Len(seq) THEN n ELSE Len(seq))

\* the number of elements the scan reaches when it ends at the first element
\* met after n Edge Bridge elements (n >= 1), or at the end of the list
ScannedUntil(elems, n) ==
    LET after == {k \in 1..Len(elems) :
                    Cardinality({j \in 1..(k - 1) : IsEdgeBridge(elems[j])}) >= n}
    IN IF after = {} THEN Len(elems)
       ELSE CHOOSE k \in after : \A other \in after : k <= other

\* the returned dict holds exactly the payloads of `elems`, in that order,
\* under the keys "Event 1", "Event 2", ...
ReturnsPayloadsOf(elems) ==
    /\ IsReturn(result)
    /\ IsDict(result.val)
    /\ Len(result.val.pairs) = Len(elems)
    /\ \A i \in 1..Len(elems) :
          /\ result.val.pairs[i].k = <<"Event ", NumTok(i)>>
          /\ loads(result.val.pairs[i].v) = PayloadOf(elems[i])

AssuranceDone == mode = "assurance" /\ pc = "done"

----------------------------------------------------------------------------
(* Properties *)

\* C1: detect_file_type ends, for every parsed JSON document (of any root
\* type, with elements of any type in its `events` list or root list), in
\* "assurance", "charles" or a ValueError, and in no other failure.
C1_DetectTotal ==
    (/\ mode = "detect" /\ pc = "done" /\ ~IsRaise(data)
     /\ Field(data, "events") = Absent \/ IsList(Field(data, "events"))) =>
        \/ result = Return(Lit("assurance"))
        \/ result = Return(Lit("charles"))
        \/ (IsRaise(result) /\ result.exc = "ValueError")

\* C2: for every Assurance document and no cap, the extractor returns exactly
\* the payloads of the Edge Bridge elements, by timestamp ascending (absent
\* timestamp counted as 0), equal timestamps in source order.
C2_AssuranceSortedStable ==
    (AssuranceDone /\ max_events = None /\ IsAssuranceDoc(data)) =>
        ReturnsPayloadsOf(ByTimestamp(Matching(data), 0))

\* C2's case: three kept events, two of them with one timestamp and different
\* payloads, and one met in the source before an event with a smaller timestamp
C2_Witness ==
    /\ AssuranceDone /\ max_events = None /\ IsAssuranceDoc(data)
    /\ IsReturn(result)
    /\ Len(result.val.pairs) = 3
    /\ LET m == Matching(data) IN
       /\ \E i, j \in 1..Len(m) :
             i < j /\ TimestampOf(m[i]) = TimestampOf(m[j])
                   /\ PayloadOf(m[i]) # PayloadOf(m[j])
       /\ \E i, j \in 1..Len(m) : i < j /\ TimestampOf(m[i]) > TimestampOf(m[j])

\* C3: for every Assurance document and every integer maxEvents >= 0, the
\* count of kept events never exceeds maxEvents and the returned batch holds
\* at most maxEvents events.
C3_CapRespected ==
    (mode = "assurance" /\ IsInt(max_events) /\ IsAssuranceDoc(data)) =>
        /\ valid_events_count <= max_events.n
        /\ (pc = "done" /\ IsReturn(result)) =>
              Len(result.val.pairs) <= max_events.n

\* C10 as stated, for maxEvents >= 1: the extractor scans every element and
\* returns the first maxEvents entries of the timestamp-sorted list of all
\* Edge Bridge events.
C10_PostSortCap ==
    (AssuranceDone /\ IsInt(max_events) /\ max_events.n >= 1 /\ IsAssuranceDoc(data)) =>
        /\ total_events_processed = Len(Field(data, "events").items)
        /\ ReturnsPayloadsOf(FirstN(ByTimestamp(Matching(data), 0), max_events.n))

\* C10 amended: the cap ends the scan: the extractor returns, by timestamp
\* ascending, the first maxEvents Edge Bridge events of the source order
\* (for maxEvents >= 1; a maxEvents of 0 caps nothing and all are returned).
C10_MidScanCap ==
    (AssuranceDone /\ IsInt(max_events) /\ IsAssuranceDoc(data)) =>
        IF max_events.n >= 1
        THEN /\ ReturnsPayloadsOf(ByTimestamp(FirstN(Matching(data), max_events.n), 0))
             /\ total_events_processed
                   = ScannedUntil(Field(data, "events").items, max_events.n)
        ELSE /\ ReturnsPayloadsOf(ByTimestamp(Matching(data), 0))
             /\ total_events_processed = Len(Field(data, "events").items)

\* C10's case: a cap of 1, three elements, and a later Edge Bridge event with
\* a smaller timestamp than the first one, which the result does not hold
C10_Witness ==
    /\ AssuranceDone /\ max_events = JNum(1) /\ IsAssuranceDoc(data)
    /\ IsReturn(result)
    /\ Len(Field(data, "events").items) = 3
    /\ total_events_processed = 2
    /\ Len(Matching(data)) >= 2
    /\ TimestampOf(Matching(data)[2]) < TimestampOf(Matching(data)[1])
    /\ PayloadOf(Matching(data)[2]) # PayloadOf(Matching(data)[1])
    /\ Len(result.val.pairs) = 1
    /\ loads(result.val.pairs[1].v) = PayloadOf(Matching(data)[1])

\* a Charles call record of the kind C4 speaks of: an object whose host is
\* absent or a string; its body text may be anything
IsCallRecord(c) ==
    IsDict(c) /\ (Field(c, "host") = Absent \/ IsStr(Field(c, "host")))

IsCharlesDoc(d) == IsList(d) /\ \A i \in 1..Len(d.items) : IsCallRecord(d.items[i])

BodyText(c) == Field(Field(Field(c, "request"), "body"), "text")
HostMatches(c) == IsStr(Field(c, "host")) /\ Contains(Field(c, "host").s, TargetHost)

\* the events a call contributes: those of its body when the host matches
\* and the body text is the JSON of an object with an `events` list
Contribution(c) ==
    IF HostMatches(c) /\ IsList(Field(loads(BodyText(c)), "events"))
    THEN Field(loads(BodyText(c)), "events").items
    ELSE <<>>

RECURSIVE Concatenation(_)
Concatenation(calls) ==
    IF calls = <<>> THEN <<>>
    ELSE Contribution(Head(calls)) \o Concatenation(Tail(calls))

\* a call whose body text, when the host matches, is JSON of an object (with a
\* list of events or none), invalid JSON, or no string
BodyObjectOrUnparsed(c) ==
    HostMatches(c) =>
        LET parsed == loads(IF BodyText(c) = Absent THEN JStr(<<>>) ELSE BodyText(c)) IN
        \/ IsRaise(parsed)
        \/ (IsDict(parsed) /\ (Field(parsed, "events") = Absent
                               \/ IsList(Field(parsed, "events"))))

\* C4: for every Charles call-record list and no cap, the extractor returns
\* the concatenation, in call order, of the events of each call whose host
\* matches and whose body parses; any other call, and any call with a
\* malformed body (invalid JSON, no string, JSON of the wrong type),
\* contributes nothing and the scan goes on.
C4_CharlesConcatenation ==
    (mode = "charles" /\ pc = "done" /\ max_events = None /\ IsCharlesDoc(data)) =>
        result = Return(JList(Concatenation(data.items)))

\* C5: for every Charles call-record list whose uncapped extraction yields N
\* events and every integer maxEvents with 0 <= maxEvents < N, the capped
\* extraction returns fewer than N events: it returns as soon as the count
\* reaches maxEvents.
C5_CapBelowTotal ==
    (/\ mode = "charles" /\ pc = "done" /\ IsInt(max_events)
     /\ IsCharlesDoc(data)
     /\ \A i \in 1..Len(data.items) : BodyObjectOrUnparsed(data.items[i])
     /\ max_events.n < Len(Concatenation(data.items))) =>
        /\ IsReturn(result)
        /\ Len(result.val.items) < Len(Concatenation(data.items))
        /\ Len(result.val.items) = max_events.n

\* the event the classify step was called on
ClassifiedEvent == loads(batch.pairs[1].v)
ClassifyDone == mode = "classify" /\ pc = "done"

\* C6: the classify step returns a string for every canonical event mapping,
\* whatever is absent, null or no mapping in it, and never raises.
C6_ClassifyTotal == ClassifyDone => (IsReturn(result) /\ IsStr(result.val))

\* an analytics.track event whose data, data.__adobe, data.__adobe.analytics
\* and contextData are each a mapping or absent
AnalyticsOf(e) == Field(Field(Field(e, "data"), "__adobe"), "analytics")
IsTrackEvent(e) ==
    /\ Field(Field(e, "xdm"), "eventType") = Lit("analytics.track")
    /\ MappingOrAbsent(Field(e, "data"))
    /\ MappingOrAbsent(Field(Field(e, "data"), "__adobe"))
    /\ MappingOrAbsent(AnalyticsOf(e))
    /\ MappingOrAbsent(Field(AnalyticsOf(e), "contextData"))

\* the summary lines of a track event
PageLine(page, previous) ==
    Return(JStr(<<"Page: ">> \o page.s \o <<"; previous page ">>
                \o (IF previous = Absent \/ ~Truthy(previous)
                    THEN <<"unknown">> ELSE previous.s)))
LinkLine(link, previous) ==
    Return(JStr(<<"Link: ">> \o link.s \o <<"; previous page ">>
                \o (IF previous = Absent \/ ~Truthy(previous)
                    THEN <<"unknown">> ELSE previous.s)))
UnknownTrackLine == Return(Lit("Unknown analytics TRACK event"))

IsPresent(v) == v # Absent /\ v # None
IsNonEmpty(v) == v # Absent /\ Truthy(v)
\* which values count as given: the present ones, or only the non-empty ones
IsGiven(v, byPresence) == IF byPresence THEN IsPresent(v) ELSE IsNonEmpty(v)

\* the summary of a track event: the page line if a page name is given (the
\* analytics one, else the contextData one), else the link line if a link
\* name is given, else the fixed line
TrackSummary(e, byPresence) ==
    LET own == Field(AnalyticsOf(e), "pageName")
        context == Field(AnalyticsOf(e), "contextData")
        pageName == IF IsGiven(own, byPresence) THEN own
                    ELSE Field(context, "hm.page.name")
        previousPage == Field(context, "hm.page.previous")
        linkName == Field(AnalyticsOf(e), "linkName")
    IN IF IsGiven(pageName, byPresence) THEN PageLine(pageName, previousPage)
       ELSE IF IsGiven(linkName, byPresence) THEN LinkLine(linkName, previousPage)
       ELSE UnknownTrackLine

\* C7 as stated: the page line whenever pageName is present, whatever its
\* value; else the link line when linkName is present; else the fixed line.
C7_TrackByPresence ==
    (ClassifyDone /\ IsTrackEvent(ClassifiedEvent)) =>
        result = TrackSummary(ClassifiedEvent, TRUE)

\* C7 amended: a name counts only when it is non-empty: the page line if
\* pageName (analytics.pageName, else contextData["hm.page.name"] when that
\* is absent, null or empty) is non-empty; else the link line if linkName is
\* non-empty; else "Unknown analytics TRACK event".
C7_TrackByNonEmpty ==
    (ClassifyDone /\ IsTrackEvent(ClassifiedEvent)) =>
        result = TrackSummary(ClassifiedEvent, FALSE)

\* C7's case: pageName present but empty, no page name in contextData, a
\* link name: the summary is the link line
C7_Witness ==
    /\ ClassifyDone /\ IsTrackEvent(ClassifiedEvent)
    /\ Field(AnalyticsOf(ClassifiedEvent), "pageName") = JStr(<<>>)
    /\ Field(AnalyticsOf(ClassifiedEvent), "linkName") = Lit("Book Now")
    /\ Field(Field(AnalyticsOf(ClassifiedEvent), "contextData"), "hm.page.previous")
          = Lit("Home")
    /\ result = Return(JStr(<<"Link: ", "Book Now", "; previous page ", "Home">>))

\* an event whose xdm is a mapping or absent and whose eventType is none of
\* the three handled ones
EventTypeOf(e) == Field(Field(e, "xdm"), "eventType")
IsUnhandledEvent(e) ==
    /\ MappingOrAbsent(Field(e, "xdm"))
    /\ EventTypeOf(e) \notin {Lit("application.launch"), Lit("analytics.track"),
                              Lit("application.close")}

\* C8 as stated: "Unhandled event type: " and then the discriminator when it
\* is non-empty, the word Unknown when it is absent, empty or null.
C8_UnknownWhenEmpty ==
    (ClassifyDone /\ IsUnhandledEvent(ClassifiedEvent)) =>
        result = Return(JStr(<<"Unhandled event type: ">>
                     \o (IF IsNonEmpty(EventTypeOf(ClassifiedEvent))
                         THEN Str(EventTypeOf(ClassifiedEvent))
                         ELSE <<"Unknown">>)))

\* C8 amended: the word Unknown only when the eventType key is absent; a
\* discriminator that is present is rendered as it is: nothing for the empty
\* string, None for null.
C8_UnknownWhenAbsent ==
    (ClassifyDone /\ IsUnhandledEvent(ClassifiedEvent)) =>
        result = Return(JStr(<<"Unhandled event type: ">>
                     \o (CASE EventTypeOf(ClassifiedEvent) = Absent -> <<"Unknown">>
                           [] EventTypeOf(ClassifiedEvent) = None -> <<"None">>
                           [] IsStr(EventTypeOf(ClassifiedEvent)) ->
                                EventTypeOf(ClassifiedEvent).s)))

\* C8's case: an empty discriminator, and nothing after the prefix
C8_Witness ==
    /\ ClassifyDone
    /\ EventTypeOf(ClassifiedEvent) = JStr(<<>>)
    /\ result = Return(JStr(<<"Unhandled event type: ">>))

\* C9: when detection succeeds on a well-formed export, the pipeline ends
\* with a report of one summary line per event of the batch, in batch order,
\* whatever the size of the batch, and no failure reaches the caller.
C9_PipelineReports ==
    (/\ mode = "pipeline" /\ pc = "done" /\ filetype # None
     /\ \/ IsAssuranceDoc(data)
        \/ (IsCharlesDoc(data)
            /\ \A i \in 1..Len(data.items) : BodyObjectOrUnparsed(data.items[i]))) =>
        /\ IsReturn(result)
        /\ Len(descriptions) = Len(batch.pairs)
        /\ result.val = JStr(JoinLines(descriptions))

====
